---- MODULE Spec2Model ----
(* The browser form of the weather fetcher (weather/frontend/src/App.tsx):     *)
(* its React state, the click / edit / reload events, the request it sends to  *)
(* the HTTP endpoint and the continuation that consumes the response.          *)
EXTENDS Integers, Sequences, FiniteSets, TLC

(* ---------------------------------------------------------------- bounds *)

\* Longest text typed into the textarea (the default text is longer and is
\* always available).
MaxLen == 3

\* How many times the page is reloaded.
MaxReloads == 1

(* ------------------------------------------------------------ characters *)

\* A string is a sequence of one-character strings.
LF == "\n"
CR == "\r"
SP == " "

\* Characters the user types: a digit, a blank and the two line breaks.
TypedChars == {"1", SP, LF, CR}

\* JavaScript's String.prototype.trim white space (the part the model types).
IsSpace(c) == c \in {SP, "\t", LF, CR}

\* The separators of split(/\n|\r/).
IsBreak(c) == c \in {LF, CR}

\* null / undefined, and a present value.
Null == <<>>
Some(v) == <<v>>
Val(o) == o[1]

(* -------------------------------------------------------- program constants *)

\* useState('openmeteo')
DefaultProvider == <<"o","p","e","n","m","e","t","e","o">>

\* useState('37.7749,-122.4194\n40.7128,-74.0060')
DefaultCoordsText ==
  <<"3","7",".","7","7","4","9",",","-","1","2","2",".","4","1","9","4",LF,
    "4","0",".","7","1","2","8",",","-","7","4",".","0","0","6","0">>

\* import.meta.env.VITE_BACKEND_BASE || 'http://127.0.0.1:8010'
BACKEND_BASE == "http://127.0.0.1:8010"

(* ------------------------------------------------------------- coordsList *)

RECURSIVE SplitFrom(_, _, _)
\* split(/\n|\r/): cur is the piece being read, i the next position.
SplitFrom(t, i, cur) ==
  IF i > Len(t) THEN <<cur>>
  ELSE IF IsBreak(t[i]) THEN <<cur>> \o SplitFrom(t, i + 1, <<>>)
  ELSE SplitFrom(t, i + 1, Append(cur, t[i]))

Split(t) == SplitFrom(t, 1, <<>>)

RECURSIVE TrimStart(_, _)
\* The position of the first character trim keeps, looking from i on.
TrimStart(s, i) ==
  IF i <= Len(s) /\ IsSpace(s[i]) THEN TrimStart(s, i + 1) ELSE i

RECURSIVE TrimEnd(_, _)
\* The position of the last character trim keeps, looking from i down.
TrimEnd(s, i) ==
  IF i >= 1 /\ IsSpace(s[i]) THEN TrimEnd(s, i - 1) ELSE i

\* (s) => s.trim()
Trim(s) == SubSeq(s, TrimStart(s, 1), TrimEnd(s, Len(s)))

\* filter(Boolean) on strings: the empty string is the only falsy one.
Truthy(s) == s # <<>>

RECURSIVE FilterTruthy(_)
FilterTruthy(ss) ==
  IF ss = <<>> THEN <<>>
  ELSE IF Truthy(Head(ss)) THEN <<Head(ss)>> \o FilterTruthy(Tail(ss))
  ELSE FilterTruthy(Tail(ss))

\* coordsList without the map(trim) step.
CoordsListNoTrim(text) == FilterTruthy(Split(text))

\* useMemo(() => coordsText.split(/\n|\r/).map(trim).filter(Boolean))
CoordsListOf(text) ==
  LET pieces == Split(text)
  IN FilterTruthy([i \in 1..Len(pieces) |-> Trim(pieces[i])])

(* ------------------------------------------------------- URLSearchParams *)

Digits == {"0","1","2","3","4","5","6","7","8","9"}
Letters == {"a","c","d","e","m","n","o","p","r","s","t","v","i"}

\* The bytes the application/x-www-form-urlencoded serializer leaves alone.
Unreserved == Digits \cup Letters \cup {"*", "-", ".", "_"}

\* Percent-encoding of the other characters the model can hold.
PercentOf(c) ==
  CASE c = ","  -> <<"%","2","C">>
    [] c = LF   -> <<"%","0","A">>
    [] c = CR   -> <<"%","0","D">>
    [] c = "\t" -> <<"%","0","9">>
    [] c = "+"  -> <<"%","2","B">>
    [] c = "%"  -> <<"%","2","5">>
    [] c = "&"  -> <<"%","2","6">>
    [] c = "="  -> <<"%","3","D">>

EncodeChar(c) ==
  IF c = SP THEN <<"+">> ELSE IF c \in Unreserved THEN <<c>> ELSE PercentOf(c)

RECURSIVE Encode(_)
Encode(s) == IF s = <<>> THEN <<>> ELSE EncodeChar(Head(s)) \o Encode(Tail(s))

RECURSIVE Serialize(_)
\* URLSearchParams.prototype.toString(): name=value pairs joined by "&".
Serialize(params) ==
  IF params = <<>> THEN <<>>
  ELSE LET p == Head(params)
           one == Encode(p[1]) \o <<"=">> \o Encode(p[2])
       IN IF Len(params) = 1 THEN one ELSE one \o <<"&">> \o Serialize(Tail(params))

\* params.set(name, value): replaces the values of name, or appends.
ParamsSet(params, name, value) ==
  IF \E i \in 1..Len(params) : params[i][1] = name
  THEN LET first == CHOOSE i \in 1..Len(params) :
                      /\ params[i][1] = name
                      /\ \A j \in 1..(i - 1) : params[j][1] # name
           keep == {i \in 1..Len(params) : i = first \/ params[i][1] # name}
           RECURSIVE Build(_)
           Build(i) ==
             IF i > Len(params) THEN <<>>
             ELSE IF i \notin keep THEN Build(i + 1)
             ELSE IF i = first THEN << <<name, value>> >> \o Build(i + 1)
             ELSE <<params[i]>> \o Build(i + 1)
       IN Build(1)
  ELSE Append(params, <<name, value>>)

\* params.append(name, value)
ParamsAppend(params, name, value) == Append(params, <<name, value>>)

ProviderKey == <<"p","r","o","v","i","d","e","r">>
CoordsKey == <<"c","o","o","r","d","s">>

RECURSIVE AppendCoords(_, _)
\* for (const c of coordsList) params.append('coords', c)
AppendCoords(params, cs) ==
  IF cs = <<>> THEN params
  ELSE AppendCoords(ParamsAppend(params, CoordsKey, Head(cs)), Tail(cs))

(* ------------------------------------------------- the HTTP endpoint side *)

\* The character a percent escape stands for.
Unescape(h, l) ==
  CASE h = "2" /\ l = "C" -> ","
    [] h = "0" /\ l = "A" -> LF
    [] h = "0" /\ l = "D" -> CR
    [] h = "0" /\ l = "9" -> "\t"
    [] h = "2" /\ l = "B" -> "+"
    [] h = "2" /\ l = "5" -> "%"
    [] h = "2" /\ l = "6" -> "&"
    [] h = "3" /\ l = "D" -> "="
    [] OTHER -> "?"

RECURSIVE DecodeFrom(_, _)
\* Form decoding from position i on: "+" is a blank, %XY an escaped byte.
DecodeFrom(s, i) ==
  IF i > Len(s) THEN <<>>
  ELSE IF s[i] = "+" THEN <<SP>> \o DecodeFrom(s, i + 1)
  ELSE IF s[i] = "%" /\ i + 2 <= Len(s)
       THEN <<Unescape(s[i + 1], s[i + 2])>> \o DecodeFrom(s, i + 3)
  ELSE <<s[i]>> \o DecodeFrom(s, i + 1)

\* Form decoding of one name or value.
Decode(s) == DecodeFrom(s, 1)

RECURSIVE SplitOn(_, _, _, _)
SplitOn(t, sep, i, cur) ==
  IF i > Len(t) THEN <<cur>>
  ELSE IF t[i] = sep THEN <<cur>> \o SplitOn(t, sep, i + 1, <<>>)
  ELSE SplitOn(t, sep, i + 1, Append(cur, t[i]))

\* One name=value pair of a query string, decoded.
ParsePair(p) ==
  LET eqs == {i \in 1..Len(p) : p[i] = "="}
      cut == IF eqs = {} THEN Len(p) + 1
             ELSE CHOOSE i \in eqs : \A j \in eqs : i <= j
  IN <<Decode(SubSeq(p, 1, cut - 1)), Decode(SubSeq(p, cut + 1, Len(p)))>>

\* The query string as the server reads it: the list of (name, value) pairs.
ParseQuery(q) ==
  IF q = <<>> THEN <<>>
  ELSE LET ps == SplitOn(q, "&", 1, <<>>)
       IN [i \in 1..Len(ps) |-> ParsePair(ps[i])]

RECURSIVE ValuesFrom(_, _, _)
ValuesFrom(pairs, name, i) ==
  IF i > Len(pairs) THEN <<>>
  ELSE IF pairs[i][1] = name THEN <<pairs[i][2]>> \o ValuesFrom(pairs, name, i + 1)
  ELSE ValuesFrom(pairs, name, i + 1)

\* The values a query gives to one name, in order.
ValuesOf(pairs, name) == ValuesFrom(pairs, name, 1)

\* A decimal number as the endpoint accepts it: an optional sign, digits, at
\* most one point.
IsNumber(s) ==
  /\ s # <<>>
  /\ \E i \in 1..Len(s) : s[i] \in Digits
  /\ \A i \in 1..Len(s) : s[i] \in Digits \cup {".", "-"}
  /\ \A i \in 1..Len(s) : s[i] = "-" => i = 1
  /\ Cardinality({i \in 1..Len(s) : s[i] = "."}) <= 1

\* A well-formed "lat,lon" string.
WellFormed(c) ==
  LET parts == SplitOn(c, ",", 1, <<>>)
  IN Len(parts) = 2 /\ IsNumber(Trim(parts[1])) /\ IsNumber(Trim(parts[2]))

KnownProviders ==
  { DefaultProvider,
    <<"o","p","e","n","w","e","a","t","h","e","r">>,
    <<"a","c","c","u","w","e","a","t","h","e","r">>,
    <<"w","e","a","t","h","e","r","a","p","i">> }

\* What a provider may report for one coordinate: every measurement present
\* (with a zero temperature), or only some of them.
Observations ==
  { [observed_at_unix |-> Some(1700000000), temperature_c |-> Some(0),
     temperature_f |-> Some(32), humidity_pct |-> Some(50),
     pressure_hpa |-> Some(1013), wind_speed_ms |-> Some(10),
     wind_direction_deg |-> Some(180), condition_code |-> Some("0"),
     condition_text |-> Some("Clear")],
    [observed_at_unix |-> Null, temperature_c |-> Some(21),
     temperature_f |-> Some(70), humidity_pct |-> Null,
     pressure_hpa |-> Null, wind_speed_ms |-> Some(3),
     wind_direction_deg |-> Null, condition_code |-> Null,
     condition_text |-> Null] }

\* The Reading of one coordinate: the provider, the echoed coordinate and the
\* normalized measurements.
ReadingOf(prov, c, o) ==
  LET parts == SplitOn(c, ",", 1, <<>>)
  IN [provider |-> prov, latitude |-> Trim(parts[1]), longitude |-> Trim(parts[2]),
      observed_at_unix |-> o.observed_at_unix, temperature_c |-> o.temperature_c,
      temperature_f |-> o.temperature_f, humidity_pct |-> o.humidity_pct,
      pressure_hpa |-> o.pressure_hpa, wind_speed_ms |-> o.wind_speed_ms,
      wind_direction_deg |-> o.wind_direction_deg,
      condition_code |-> o.condition_code, condition_text |-> o.condition_text]

\* A resolved axios response, and a rejection with the error object e.
NoError == [response |-> Null, message |-> Null]
Resolved(data) == [ok |-> TRUE, data |-> data, e |-> NoError]
Rejected(e) == [ok |-> FALSE, data |-> <<>>, e |-> e]

\* An HTTP error response whose JSON body is {error: text}.
HttpError(text, message) ==
  Rejected([response |-> Some([data |-> Some([error |-> Some(text)])]),
            message |-> Some(message)])

\* Failures that do not come from the endpoint's own code: no response at all
\* (with and without a message), a gateway's error page, a body without the
\* error field or with an empty one.
TransportFailures ==
  { Rejected([response |-> Null, message |-> Some("Network Error")]),
    Rejected([response |-> Null, message |-> Some("")]),
    Rejected([response |-> Null, message |-> Null]),
    Rejected([response |-> Some([data |-> Null]),
              message |-> Some("Request failed with status code 502")]),
    Rejected([response |-> Some([data |-> Some([error |-> Null])]),
              message |-> Some("Request failed with status code 500")]),
    Rejected([response |-> Some([data |-> Some([error |-> Some("")])]),
              message |-> Null]) }

\* GET /api/weather: validation, then one Reading per coords value in order,
\* or an upstream failure.
EndpointResponses(req) ==
  LET pairs == ParseQuery(req.query)
      provs == ValuesOf(pairs, ProviderKey)
      cs == ValuesOf(pairs, CoordsKey)
  IN IF Len(provs) # 1 \/ (Len(provs) = 1 /\ provs[1] \notin KnownProviders)
     THEN {HttpError("unknown provider", "Request failed with status code 400")}
     ELSE IF \E i \in 1..Len(cs) : ~WellFormed(cs[i])
     THEN {HttpError("invalid coords", "Request failed with status code 400")}
     ELSE {Resolved([i \in 1..Len(cs) |-> ReadingOf(provs[1], cs[i], os[i])]) :
             os \in [1..Len(cs) -> Observations]}
          \cup {HttpError("upstream failure", "Request failed with status code 502")}

(* ------------------------------------------------------------ the request *)

\* fetchWeather with a validation step in front: malformed lines are left out.
BuildRequestValidated(prov, cs) ==
  [method |-> "GET",
   base   |-> BACKEND_BASE,
   path   |-> "/api/weather",
   query  |-> Serialize(AppendCoords(ParamsSet(<<>>, ProviderKey, prov),
                                      SelectSeq(cs, WellFormed)))]

\* The request fetchWeather builds from the state of the render it runs in.
BuildRequest(prov, cs) ==
  [method |-> "GET",
   base   |-> BACKEND_BASE,
   path   |-> "/api/weather",
   query  |-> Serialize(AppendCoords(ParamsSet(<<>>, ProviderKey, prov), cs))]

(* ------------------------------------------------------------ the form *)

VARIABLES
  provider,    \* useState('openmeteo')
  coordsText,  \* the textarea's content
  readings,    \* Null, or Some(the Reading array shown)
  loading,     \* a fetch is running
  error,       \* Null, or Some(the error text shown)
  inflight,    \* requests of this page awaiting their continuation, oldest first
  page,        \* how many times the page has been reloaded
  abandoned    \* requests whose page was unloaded before they settled

vars == <<provider, coordsText, readings, loading, error, inflight, page, abandoned>>

\* App with useState([]) for the readings.
InitialFormEmptyReadings ==
  [provider |-> DefaultProvider, coordsText |-> DefaultCoordsText,
   readings |-> Some(<<>>), loading |-> FALSE, error |-> Null]

\* App with another provider as the initial one.
InitialFormOpenWeather ==
  [provider |-> <<"o","p","e","n","w","e","a","t","h","e","r">>,
   coordsText |-> DefaultCoordsText, readings |-> Null, loading |-> FALSE, error |-> Null]

\* The useState initial values of a freshly mounted App.
InitialForm ==
  [provider |-> DefaultProvider, coordsText |-> DefaultCoordsText,
   readings |-> Null, loading |-> FALSE, error |-> Null]

\* Texts with commas and letters: a well-formed pair, a pair with blanks
\* around it, and the malformed "not,a,coord".
SampleTexts ==
  { DefaultCoordsText,
    <<"1",",","1">>,
    <<"n","o","t",",","a",",","c","o","o","r","d">> }

\* A button that is never disabled.
ButtonNeverDisabled(l) == FALSE

\* <button disabled={loading}>
ButtonDisabled(l) == l

\* e?.response?.data?.error
ResponseError(e) ==
  IF e.response = Null THEN Null
  ELSE IF Val(e.response).data = Null THEN Null
  ELSE Val(Val(e.response).data).error

\* a || b on optional strings: null, undefined and '' are falsy.
OrElse(a, b) == IF a # Null /\ Val(a) # "" THEN a ELSE b

\* The catch without its last alternative.
ErrorOfNoFallback(e) == OrElse(ResponseError(e), e.message)

\* e?.response?.data?.error || e?.message || 'Request failed'
ErrorOf(e) == OrElse(ResponseError(e), OrElse(e.message, Some("Request failed")))

RECURSIVE Reverse(_)
Reverse(q) == IF q = <<>> THEN <<>> ELSE Append(Reverse(Tail(q)), Head(q))

\* setReadings of the response array in reverse order.
ReadingsAfterReversed(r, old) == IF r.ok THEN Some(Reverse(r.data)) ELSE old

\* try { ... setReadings(resp.data) }: the readings after the await.
ReadingsAfter(r, old) == IF r.ok THEN Some(r.data) ELSE old

\* catch (e) { setError(...) }: the error after the await.
ErrorAfter(r, old) == IF r.ok THEN old ELSE ErrorOf(r.e)

\* setLoading(false) at the end of the try block instead of in finally.
LoadingAfterTryOnly(r) == ~r.ok

\* finally { setLoading(false) }
LoadingAfter(r) == FALSE

\* The sequence s without its i-th element.
Without(s, i) == SubSeq(s, 1, i - 1) \o SubSeq(s, i + 1, Len(s))

(* -------------------------------------------------------------- render *)

\* The table without its wind speed column.
ColumnsWithoutWind ==
  << [header |-> "T (C)",       field |-> "temperature_c"],
     [header |-> "Hum (%)",     field |-> "humidity_pct"],
     [header |-> "Press (hPa)", field |-> "pressure_hpa"],
     [header |-> "Dir (deg)",   field |-> "wind_direction_deg"] >>

\* The <th> of the table with the Reading field each column shows
\* ("T (C)" and "Dir (deg)" stand for the headers with the degree sign).
Columns ==
  << [header |-> "T (C)",       field |-> "temperature_c"],
     [header |-> "Hum (%)",     field |-> "humidity_pct"],
     [header |-> "Press (hPa)", field |-> "pressure_hpa"],
     [header |-> "Wind (m/s)",  field |-> "wind_speed_ms"],
     [header |-> "Dir (deg)",   field |-> "wind_direction_deg"] >>

\* {v ?? ''}: null and undefined render as the empty string, a number as its
\* digits.
Cell(v) == IF v = Null THEN "" ELSE ToString(Val(v))

\* One <tr>: a <td> per column.
RowOf(r) == [j \in 1..Len(Columns) |-> Cell(r[Columns[j].field])]

\* readings.map((r, idx) => <tr key={idx}>...)
RowsOf(rs) == [i \in 1..Len(rs) |-> RowOf(rs[i])]

\* What App returns for the state given.
Render(rd, ld, err) ==
  [buttonDisabled |-> ButtonDisabled(ld),
   buttonLabel    |-> IF ld THEN "Fetching..." ELSE "Fetch Weather",
   errorLine      |-> IF err # Null /\ Val(err) # "" THEN Some(<<"Error: ", Val(err)>>)
                      ELSE Null,
   table          |-> IF rd # Null
                      THEN Some([head |-> [j \in 1..Len(Columns) |-> Columns[j].header],
                                 rows |-> RowsOf(Val(rd))])
                      ELSE Null]

View == Render(readings, loading, error)

Init ==
  /\ provider = InitialForm.provider
  /\ coordsText = InitialForm.coordsText
  /\ readings = InitialForm.readings
  /\ loading = InitialForm.loading
  /\ error = InitialForm.error
  /\ inflight = <<>>
  /\ page = 0
  /\ abandoned = 0

\* onChange={(e) => setCoordsText(e.target.value)}
EditTo(t) ==
  /\ coordsText' = t
  /\ UNCHANGED <<provider, readings, loading, error, inflight, page, abandoned>>

\* What one input event can turn the text into: a character typed or deleted
\* anywhere (in a text of at most MaxLen typed characters), or the whole text
\* replaced by a pasted sample or cleared.
EditsOf(cur) ==
  LET n == Len(cur)
      plain == \A i \in 1..n : cur[i] \in TypedChars
      typed == IF n >= MaxLen \/ ~plain THEN {}
               ELSE {SubSeq(cur, 1, i) \o <<c>> \o SubSeq(cur, i + 1, n) :
                       i \in 0..n, c \in TypedChars}
      deleted == IF n > MaxLen \/ ~plain THEN {}
                 ELSE {Without(cur, i) : i \in 1..n}
  IN (typed \cup deleted \cup SampleTexts \cup {<<>>}) \ {cur}

Edit == \E t \in EditsOf(coordsText) : EditTo(t)

EditSample == \E t \in SampleTexts : t # coordsText /\ EditTo(t)

\* fetchWeather without its setError(null).
ClickKeepsError ==
  /\ ~ButtonDisabled(loading)
  /\ loading' = TRUE
  /\ readings' = Null
  /\ inflight' = Append(inflight,
       [req |-> BuildRequest(provider, CoordsListOf(coordsText)), resp |-> Null])
  /\ UNCHANGED <<provider, coordsText, error, page, abandoned>>

\* onClick={fetchWeather}, up to the await: the three setters and the GET.
Click ==
  /\ ~ButtonDisabled(loading)
  /\ loading' = TRUE
  /\ error' = Null
  /\ readings' = Null
  /\ inflight' = Append(inflight,
       [req |-> BuildRequest(provider, CoordsListOf(coordsText)), resp |-> Null])
  /\ UNCHANGED <<provider, coordsText, page, abandoned>>

\* The endpoint answers a request: axios has the outcome.
Respond ==
  \E i \in 1..Len(inflight) :
    /\ inflight[i].resp = Null
    /\ \E r \in EndpointResponses(inflight[i].req) :
         inflight' = [inflight EXCEPT ![i].resp = Some(r)]
    /\ UNCHANGED <<provider, coordsText, readings, loading, error, page, abandoned>>

\* A request fails without an answer of the endpoint: axios rejects.
Fail ==
  \E i \in 1..Len(inflight) :
    /\ inflight[i].resp = Null
    /\ \E r \in TransportFailures :
         inflight' = [inflight EXCEPT ![i].resp = Some(r)]
    /\ UNCHANGED <<provider, coordsText, readings, loading, error, page, abandoned>>

\* fetchWeather after the await: try / catch / finally, in one run of the
\* event loop (the setters are applied together).
Settle ==
  \E i \in 1..Len(inflight) :
    /\ inflight[i].resp # Null
    /\ LET r == Val(inflight[i].resp)
       IN /\ readings' = ReadingsAfter(r, readings)
          /\ error' = ErrorAfter(r, error)
          /\ loading' = LoadingAfter(r)
    /\ inflight' = Without(inflight, i)
    /\ UNCHANGED <<provider, coordsText, page, abandoned>>

\* The page is reloaded: App is mounted afresh, the pending continuations of
\* the old page are gone with it, their requests stay with the network.
Reload ==
  /\ page < MaxReloads
  /\ page' = page + 1
  /\ provider' = InitialForm.provider
  /\ coordsText' = InitialForm.coordsText
  /\ readings' = InitialForm.readings
  /\ loading' = InitialForm.loading
  /\ error' = InitialForm.error
  /\ abandoned' = abandoned + Len(inflight)
  /\ inflight' = <<>>

\* A request of an unloaded page settles: nothing is left to run.
SettleAbandoned ==
  /\ abandoned > 0
  /\ abandoned' = abandoned - 1
  /\ UNCHANGED <<provider, coordsText, readings, loading, error, inflight, page>>

Next == Edit \/ Click \/ Respond \/ Fail \/ Settle \/ Reload \/ SettleAbandoned

Spec == Init /\ [][Next]_vars

\* The same form with the typed texts drawn from the samples. No request
\* stays pending for ever (one that nothing answers is rejected in the end),
\* and the continuation of an answered request is eventually run.
NextSample ==
  EditSample \/ Click \/ Respond \/ Fail \/ Settle \/ Reload \/ SettleAbandoned

FairSpec ==
  Init /\ [][NextSample]_vars /\ WF_vars(Fail) /\ WF_vars(Settle)

(* ------------------------------------------------------------- claims *)

\* C1: every request fetchWeather issues is a GET to <base>/api/weather whose
\* query is one provider parameter equal to the provider state followed by one
\* coords parameter per non-empty line of the textarea as it is at the click:
\* the lines are the maximal runs between \n and \r, each cut down to the span
\* from its first to its last non-blank character, those without one left out,
\* in the order of the text.
C1_RequestCarriesLines ==
  [][Len(inflight') > Len(inflight) =>
       LET t == coordsText
           nonBlank == {i \in 1..Len(t) : ~IsSpace(t[i])}
           lineNo(i) == Cardinality({j \in 1..(i - 1) : IsBreak(t[j])})
           used == {lineNo(i) : i \in nonBlank}
           kth(k) == CHOOSE l \in used : Cardinality({m \in used : m < l}) = k - 1
           inLine(l) == {i \in nonBlank : lineNo(i) = l}
           first(l) == CHOOSE i \in inLine(l) : \A j \in inLine(l) : i <= j
           last(l) == CHOOSE i \in inLine(l) : \A j \in inLine(l) : j <= i
           lines == [k \in 1..Cardinality(used) |->
                       SubSeq(t, first(kth(k)), last(kth(k)))]
           sent == inflight'[Len(inflight')].req
       IN /\ Len(inflight') = Len(inflight) + 1
          /\ sent.method = "GET"
          /\ sent.base = BACKEND_BASE
          /\ sent.path = "/api/weather"
          /\ ParseQuery(sent.query) =
               << <<ProviderKey, provider>> >>
                 \o [k \in 1..Len(lines) |-> <<CoordsKey, lines[k]>>]
     ]_vars

\* C1 witness: a request is in flight whose only coords value is the line of a
\* text with a blank before it and a \r after it.
C1_Witness ==
  /\ coordsText = <<SP, "1", CR>>
  /\ Len(inflight) = 1
  /\ ValuesOf(ParseQuery(inflight[1].req.query), CoordsKey) = << <<"1">> >>

\* C2: a failed request leaves a non-null error that is shown inline: the
\* error text of the response body when there is a (non-empty) one, otherwise
\* the failure's (non-empty) message, otherwise 'Request failed'.
C2_FailureShowsError ==
  [][\A i \in 1..Len(inflight) :
       (/\ inflight[i].resp # Null
        /\ ~Val(inflight[i].resp).ok
        /\ inflight' = Without(inflight, i)
        /\ page' = page)
       => LET e == Val(inflight[i].resp).e
              body == IF e.response # Null /\ Val(e.response).data # Null
                      THEN Val(Val(e.response).data).error ELSE Null
              text == IF body # Null /\ Val(body) # "" THEN Val(body)
                      ELSE IF e.message # Null /\ Val(e.message) # "" THEN Val(e.message)
                      ELSE "Request failed"
          IN /\ error' # Null
             /\ error' = Some(text)
             /\ View'.errorLine = Some(<<"Error: ", text>>)
     ]_vars

\* C2 witness: a failure with neither an error text nor a message has settled.
C2_Witness ==
  /\ error = Some("Request failed")
  /\ ~loading
  /\ View.errorLine # Null

\* C3 (as claimed): no request is issued while some non-empty line of the
\* textarea is not a well-formed "lat,lon" pair, so every request in flight
\* carries well-formed coords values only.
C3_Original ==
  \A i \in 1..Len(inflight) :
    LET cs == ValuesOf(ParseQuery(inflight[i].req.query), CoordsKey)
    IN \A k \in 1..Len(cs) : WellFormed(cs[k])

\* C3 (amended): the form validates nothing: every click issues exactly one
\* request, whatever the lines are, and each malformed non-empty line is sent
\* as a coords parameter of it.
C3_MalformedLinesAreSent ==
  [][(~loading /\ loading') =>
       /\ Len(inflight') = Len(inflight) + 1
       /\ LET cs == ValuesOf(ParseQuery(inflight'[Len(inflight')].req.query), CoordsKey)
              pieces == Split(coordsText)
          IN \A k \in 1..Len(pieces) :
               (Trim(pieces[k]) # <<>> /\ ~WellFormed(Trim(pieces[k])))
               => \E m \in 1..Len(cs) : cs[m] = Trim(pieces[k])
     ]_vars

\* C3 witness: a request carrying "not,a,coord" is in flight.
C3_Witness ==
  /\ Len(inflight) = 1
  /\ ValuesOf(ParseQuery(inflight[1].req.query), CoordsKey)
       = << <<"n","o","t",",","a",",","c","o","o","r","d">> >>

\* C4: after a successful fetch the readings state is the response array
\* unchanged, the table has one row per element, row i shows the values of
\* element i, and element i is the Reading of the i-th coords value submitted.
C4_RowsFollowResponse ==
  [][\A i \in 1..Len(inflight) :
       (/\ inflight[i].resp # Null
        /\ Val(inflight[i].resp).ok
        /\ inflight' = Without(inflight, i)
        /\ page' = page)
       => LET data == Val(inflight[i].resp).data
              cs == ValuesOf(ParseQuery(inflight[i].req.query), CoordsKey)
              shown(v) == IF v = Null THEN "" ELSE ToString(v[1])
              rows == Val(View'.table).rows
          IN /\ readings' = Some(data)
             /\ View'.table # Null
             /\ Len(rows) = Len(data)
             /\ Len(data) = Len(cs)
             /\ \A k \in 1..Len(data) :
                  /\ rows[k][1] = shown(data[k].temperature_c)
                  /\ rows[k][2] = shown(data[k].humidity_pct)
                  /\ rows[k][3] = shown(data[k].pressure_hpa)
                  /\ rows[k][4] = shown(data[k].wind_speed_ms)
                  /\ rows[k][5] = shown(data[k].wind_direction_deg)
                  /\ <<data[k].latitude, data[k].longitude>> =
                       SplitOn(cs[k], ",", 1, <<>>)
     ]_vars

\* C4 witness: two readings with different values are shown, in the order of
\* the two default coordinates.
C4_Witness ==
  /\ readings # Null
  /\ Len(Val(readings)) = 2
  /\ Val(readings)[1].latitude = <<"3","7",".","7","7","4","9">>
  /\ Val(readings)[2].latitude = <<"4","0",".","7","1","2","8">>
  /\ Val(View.table).rows = << <<"0","50","1013","10","180">>, <<"21","","","3","">> >>

\* C5 (as claimed): once readings are shown, every normalized scalar field of
\* a Reading has a column in the table.
C5_Original ==
  readings # Null =>
    /\ View.table # Null
    /\ \A f \in {"provider", "latitude", "longitude", "observed_at_unix",
                 "temperature_c", "humidity_pct", "pressure_hpa", "wind_speed_ms",
                 "wind_direction_deg", "condition_code", "condition_text"} :
         \E j \in 1..Len(Columns) : Columns[j].field = f

\* C5 (amended): once readings are shown the table has exactly five columns,
\* temperature_c, humidity_pct, pressure_hpa, wind_speed_ms and
\* wind_direction_deg in this order, and a cell per column in every row.
C5_FiveColumns ==
  readings # Null =>
    /\ View.table # Null
    /\ [j \in 1..Len(Columns) |-> Columns[j].field] =
         <<"temperature_c", "humidity_pct", "pressure_hpa", "wind_speed_ms",
           "wind_direction_deg">>
    /\ Len(Val(View.table).head) = 5
    /\ \A i \in 1..Len(Val(View.table).rows) : Len(Val(View.table).rows[i]) = 5

\* C5 witness: a table with a row is shown.
C5_Witness ==
  /\ readings # Null
  /\ View.table # Null
  /\ Len(Val(View.table).rows) >= 1

\* C6: the provider state is 'openmeteo' in every state, and every request in
\* flight carries provider=openmeteo.
C6_ProviderFixed ==
  /\ provider = <<"o","p","e","n","m","e","t","e","o">>
  /\ \A i \in 1..Len(inflight) :
       ValuesOf(ParseQuery(inflight[i].req.query), ProviderKey)
         = << <<"o","p","e","n","m","e","t","e","o">> >>

\* C6 witness: a request issued after a reload and an edit is in flight.
C6_Witness ==
  /\ page = 1
  /\ coordsText = <<"1", ",", "1">>
  /\ Len(inflight) = 1

\* C7: a reload in any state puts the form back into its initial state
\* (provider 'openmeteo', the default two-line text, readings null, error
\* null, loading false, nothing pending), and a request issued before the
\* reload changes nothing of the reloaded form when it settles.
C7_ReloadResets ==
  /\ [][page' # page =>
          /\ provider' = <<"o","p","e","n","m","e","t","e","o">>
          /\ coordsText' = DefaultCoordsText
          /\ Len(Split(coordsText')) = 2
          /\ readings' = Null
          /\ error' = Null
          /\ loading' = FALSE
          /\ inflight' = <<>>
       ]_vars
  /\ [][abandoned' < abandoned =>
          UNCHANGED <<provider, coordsText, readings, loading, error, inflight>>
       ]_vars

\* C7 witness: the page was reloaded while a request was pending, and the
\* reloaded form is idle.
C7_Witness ==
  /\ page = 1
  /\ abandoned = 1
  /\ ~loading
  /\ readings = Null
  /\ error = Null

\* C8: at most one of these holds in a state: loading is true, error is
\* non-null, readings is non-null.
C8_AtMostOne ==
  Cardinality({k \in {"loading", "error", "readings"} :
                 \/ k = "loading" /\ loading
                 \/ k = "error" /\ error # Null
                 \/ k = "readings" /\ readings # Null}) <= 1

\* C8 witness: an error is shown, with no readings, after a fetch.
C8_Witness ==
  /\ error # Null
  /\ readings = Null
  /\ ~loading
  /\ page = 0

\* C9: at most one request of the form is in flight; one is in flight exactly
\* while loading is true, which is exactly while the button is disabled.
C9_OneInFlight ==
  /\ Len(inflight) <= 1
  /\ loading <=> Len(inflight) = 1
  /\ View.buttonDisabled <=> loading

\* C9 witness: the response has arrived and the text was edited meanwhile;
\* the button is still disabled.
C9_Witness ==
  /\ Len(inflight) = 1
  /\ inflight[1].resp # Null
  /\ coordsText = <<>>
  /\ View.buttonDisabled

\* C10: with every request eventually answered and its continuation run,
\* loading always becomes false again, and when a fetch ends the button is
\* enabled and exactly one of readings and error is non-null.
C10_LoadingEnds ==
  /\ loading ~> ~loading
  /\ [][(loading /\ ~loading' /\ page' = page) =>
          /\ ~View'.buttonDisabled
          /\ (readings' # Null) # (error' # Null)
       ]_vars

\* C10 witness: a fetch has ended with readings and no error.
C10_Witness ==
  /\ ~loading
  /\ readings # Null
  /\ error = Null
  /\ inflight = <<>>

====
